---- MODULE Spec2Model ----
(***************************************************************************)
(* Custom-resource handlers of aws-cdk's EKS packages:                     *)
(*   - aws-eks-legacy/lib/cluster-resource/index.py  (fn = "cluster")      *)
(*   - aws-eks-legacy/lib/helm-chart/index.py        (fn = "chart")        *)
(*   - aws-eks/lib/kubectl-handler/helm/__init__.py  (fn = "kubectl")      *)
(* Each handler is a sequential program; pc is its position.  The EKS      *)
(* service, the helm command, the response PUT and the orchestrator        *)
(* (CloudFormation) are the environment.                                   *)
(*                                                                         *)
(* Optional Python values are tuples: None (or an absent key) is <<>>, a   *)
(* string s is <<s>>; f"cluster-{request_id}" is <<"cluster-", id>>.       *)
(***************************************************************************)
EXTENDS Integers, Sequences, FiniteSets, TLC

VARIABLES
    fn,            \* which Lambda function this behaviour runs
    pc,            \* position of the running invocation
    event,         \* the event of the current invocation
    env,           \* os.environ of the current invocation (CLUSTER_NAME)
    physical_id,   \* handler local (helm-chart): the physical id to report
    retry,         \* helm() local (kubectl-handler): attempts left
    cluster_name,  \* handler local: the resolved cluster name
    current_state, \* handler local: describe_cluster(physical_id)['cluster']
    replace,       \* handler local: value of should_replace_cluster(), once called
    attrs,         \* handler local: response Data built from the final describe
    num_attempts,  \* waiter local: polls made by the wait in progress
    exc,           \* message of the exception being handled
    calls,         \* external calls made by the current invocation, in order
    resps,         \* response PUT attempts of the current invocation, in order
    prev,          \* the previous handling of the same event (a replay), or None
    clusters,      \* EKS: the clusters that exist
    cfnPhys,       \* orchestrator: physical id recorded for the resource
    cfnConfig,     \* orchestrator: Config recorded for the resource
    stale,         \* orchestrator: resource replaced and awaiting its Delete
    answered,      \* orchestrator: a response to the current request was taken
    nextRid        \* orchestrator: next fresh RequestId (one is used per delivery)

vars == <<fn, pc, event, env, physical_id, retry, cluster_name, current_state, replace, attrs,
          num_attempts, exc, calls, resps, prev, clusters, cfnPhys, cfnConfig, stale, answered,
          nextRid>>

----------------------------------------------------------------------------
(* Bounds of the model *)

\* Create, Update and Delete requests for the resource in one behaviour,
\* re-deliveries included
MaxRequests == 3

\* distinct values uuid4() can return
NumUuids == 2

\* requests delivered in a behaviour in which the handler's progress is checked
WaitRequests == 2

----------------------------------------------------------------------------
(* Values *)

None == <<>>

Str(s) == <<s>>

CFN_SUCCESS == "SUCCESS"

CFN_FAILED == "FAILED"

\* context.log_stream_name
LogStream == Str("log-stream")

\* Names a template can give a cluster.  RequestIds are unguessable UUIDs, so
\* no configured name has the form cluster-<RequestId>.
GivenNames == {Str("prod")}

VpcA == <<[subnetIds |-> <<"subnet-1", "subnet-2">>, securityGroupIds |-> <<"sg-1">>]>>

VpcB == <<[subnetIds |-> <<"subnet-2", "subnet-1">>, securityGroupIds |-> <<"sg-1">>]>>

VpcConfigs == {VpcA, VpcB}

RoleArns == {Str("arn:role/a"), Str("arn:role/b")}

K8sVersions == {Str("1.20"), Str("1.21")}

\* the version EKS gives a cluster created without one
DefaultVersion == Str("1.21")

\* props['Config'] as the template gives it
Configs ==
    [name : GivenNames \cup {None}, resourcesVpcConfig : VpcConfigs,
     roleArn : RoleArns, version : K8sVersions \cup {None}]

\* old_props.get('Config', {}) when there are no OldResourceProperties
EmptyConfig ==
    [name |-> None, resourcesVpcConfig |-> None, roleArn |-> None, version |-> None]

NoEvent ==
    [RequestType |-> "", RequestId |-> 0, PhysicalResourceId |-> None,
     Config |-> EmptyConfig, OldConfig |-> EmptyConfig]

NoAttrs == [Name |-> None, Endpoint |-> None, Arn |-> None, CertificateAuthorityData |-> None]

Call(op, name, arg) == [op |-> op, name |-> name, arg |-> arg]

----------------------------------------------------------------------------
(* cluster-resource/index.py: pure parts *)

\* variant of new_cluster_name that numbers the deliveries, not the requests
new_cluster_name_per_delivery(request_id) == <<"cluster-", nextRid>>

new_cluster_name(request_id) == <<"cluster-", request_id>>

\* variant of ResolveName that prefers the physical id to the Config name
ResolveName_physical_id_first(ev) ==
    IF ev.PhysicalResourceId # None
    THEN [raised |-> FALSE, name |-> ev.PhysicalResourceId]
    ELSE IF ev.Config.name # None THEN [raised |-> FALSE, name |-> ev.Config.name]
    ELSE IF ev.RequestType = "Create"
         THEN [raised |-> FALSE, name |-> new_cluster_name(ev.RequestId)]
    ELSE [raised |-> TRUE, name |-> None]

\* lines 53-57: the resolved name, or the exception
ResolveName(ev) ==
    LET name == ev.Config.name IN
    IF name # None THEN [raised |-> FALSE, name |-> name]
    ELSE IF ev.PhysicalResourceId # None
         THEN [raised |-> FALSE, name |-> ev.PhysicalResourceId]
    ELSE IF ev.RequestType = "Create"
         THEN [raised |-> FALSE, name |-> new_cluster_name(ev.RequestId)]
    ELSE [raised |-> TRUE, name |-> None]

\* variant of Dispatch that handles an unknown request type as a Create
Dispatch_defaulting_to_create(request_type) ==
    IF request_type = "Delete" THEN "delete"
    ELSE IF request_type = "Update" THEN "describe_current"
    ELSE "create"

\* lines 87, 96, 100, 137-138: the branch taken for a request type
Dispatch(request_type) ==
    IF request_type = "Delete" THEN "delete"
    ELSE IF request_type = "Create" THEN "create"
    ELSE IF request_type = "Update" THEN "describe_current"
    ELSE "raise"

\* variant of should_replace_cluster that forgets the roleArn comparison
should_replace_cluster_without_roleArn(old_name, name, old_config, resourcesVpcConfig, roleArn) ==
    IF old_name # name THEN TRUE
    ELSE IF old_config.resourcesVpcConfig # resourcesVpcConfig THEN TRUE
    ELSE FALSE

\* lines 66-84, with the closure's variables as parameters
should_replace_cluster(old_name, name, old_config, resourcesVpcConfig, roleArn) ==
    IF old_name # name THEN TRUE
    ELSE IF old_config.resourcesVpcConfig # resourcesVpcConfig THEN TRUE
    ELSE IF old_config.roleArn # roleArn THEN TRUE
    ELSE FALSE

\* variant of ReplacementName that creates the replacement under the old name
ReplacementName_reusing_old(name, old_name, request_id) == old_name

\* variant of ReplacementName that never allocates a new name
ReplacementName_never_minting(name, old_name, request_id) == name

\* lines 110-113: the name the replacement is created under
ReplacementName(name, old_name, request_id) ==
    IF name = old_name THEN new_cluster_name(request_id) ELSE name

\* variant of VersionAction that takes a missing version for "no change"
VersionAction_ignoring_unset(old_version, version, old_version_actual) ==
    IF version = None THEN "noop"
    ELSE IF version # old_version_actual THEN "update"
    ELSE "noop"

\* variant of VersionAction that compares with the old Config, not the cluster
VersionAction_against_old_config(old_version, version, old_version_actual) ==
    IF old_version = None /\ version = None THEN "noop"
    ELSE IF version # old_version
         THEN (IF version = None THEN "raise" ELSE "update")
    ELSE "noop"

\* lines 123-135: "noop", "raise" or "update"
VersionAction(old_version, version, old_version_actual) ==
    IF old_version = None /\ version = None THEN "noop"
    ELSE IF version # old_version_actual
         THEN (IF version = None THEN "raise" ELSE "update")
    ELSE "noop"

\* variant of ResponseBody without the fallback to the event's physical id
ResponseBody_without_fallback(ev, responseStatus, responseData, physicalResourceId, reason) ==
    [Status |-> responseStatus,
     Reason |-> IF reason # None THEN reason ELSE Str("See the details in CloudWatch"),
     PhysicalResourceId |->
        IF physicalResourceId # None THEN physicalResourceId ELSE LogStream,
     RequestId |-> ev.RequestId,
     Data |-> responseData]

\* variant of DescribeAttrs that leaves the name out
DescribeAttrs_without_name(cluster) ==
    [Name |-> None,
     Endpoint |-> <<"endpoint", cluster.name>>,
     Arn |-> <<"arn", cluster.name>>,
     CertificateAuthorityData |-> <<"ca", cluster.name>>]

\* lines 150-155: the response Data, from resp['cluster']
DescribeAttrs(cluster) ==
    [Name |-> cluster.name,
     Endpoint |-> <<"endpoint", cluster.name>>,
     Arn |-> <<"arn", cluster.name>>,
     CertificateAuthorityData |-> <<"ca", cluster.name>>]

\* lines 177-189: the response body
ResponseBody(ev, responseStatus, responseData, physicalResourceId, reason) ==
    [Status |-> responseStatus,
     Reason |-> IF reason # None THEN reason ELSE Str("See the details in CloudWatch"),
     PhysicalResourceId |->
        IF physicalResourceId # None THEN physicalResourceId
        ELSE IF ev.PhysicalResourceId # None THEN ev.PhysicalResourceId
        ELSE LogStream,
     RequestId |-> ev.RequestId,
     Data |-> responseData]

\* variant of cfn_send without the try/except around requests.put
PutFailureRaises_uncaught(putOk) == ~putOk

\* lines 199-204: does a failed PUT leave cfn_send as an exception?
PutFailureRaises(putOk) == FALSE

----------------------------------------------------------------------------
(* EKS, as the handler sees it *)

Exists(name) == \E c \in clusters : c.name = name

ClusterOf(name) == CHOOSE c \in clusters : c.name = name

----------------------------------------------------------------------------
(* The orchestrator: what it records when a response arrives *)

\* the first delivered response to a request decides it
Takes(putOk) == putOk /\ ~answered

IsCleanup(ev) == stale # None /\ ev.RequestType = "Delete"
                     /\ ev.PhysicalResourceId = stale[1].phys
                     /\ ev.PhysicalResourceId # cfnPhys

OnResponse(body, putOk) ==
    /\ answered' = (answered \/ putOk)
    /\ IF ~Takes(putOk) THEN UNCHANGED <<cfnPhys, cfnConfig, stale>>
       ELSE IF IsCleanup(event)
            THEN stale' = None /\ UNCHANGED <<cfnPhys, cfnConfig>>
       ELSE IF body.Status # CFN_SUCCESS THEN UNCHANGED <<cfnPhys, cfnConfig, stale>>
       ELSE IF event.RequestType = "Create"
            THEN /\ cfnPhys' = body.PhysicalResourceId
                 /\ cfnConfig' = event.Config
                 /\ UNCHANGED stale
       ELSE IF event.RequestType = "Update"
            THEN /\ cfnPhys' = body.PhysicalResourceId
                 /\ cfnConfig' = event.Config
                 /\ stale' = IF body.PhysicalResourceId # cfnPhys
                             THEN <<[phys |-> cfnPhys, config |-> cfnConfig,
                                    by |-> event.RequestId]>>
                             ELSE stale
       ELSE IF event.RequestType = "Delete"
            THEN /\ cfnPhys' = None
                 /\ cfnConfig' = EmptyConfig
                 /\ UNCHANGED stale
       ELSE UNCHANGED <<cfnPhys, cfnConfig, stale>>

----------------------------------------------------------------------------
(* Invocation *)

Idle == pc \in {"idle", "done", "crashed"}

Invoke(ev, p) ==
    /\ event' = ev
    /\ pc' = "start"
    /\ physical_id' = None
    /\ retry' = 0
    /\ cluster_name' = None
    /\ current_state' = None
    /\ replace' = None
    /\ attrs' = NoAttrs
    /\ num_attempts' = 0
    /\ exc' = None
    /\ calls' = <<>>
    /\ resps' = <<>>
    /\ prev' = p

Fresh(ev) ==
    /\ nextRid <= MaxRequests
    /\ UNCHANGED env
    /\ nextRid' = nextRid + 1
    /\ answered' = FALSE
    /\ Invoke(ev, None)
    /\ UNCHANGED <<fn, clusters, cfnPhys, cfnConfig, stale>>

ReceiveCreate ==
    /\ fn = "cluster" /\ Idle
    /\ cfnPhys = None /\ stale = None
    /\ \E c \in Configs :
         Fresh([RequestType |-> "Create", RequestId |-> nextRid,
                PhysicalResourceId |-> None, Config |-> c, OldConfig |-> EmptyConfig])

ReceiveUpdate ==
    /\ fn = "cluster" /\ Idle
    /\ cfnPhys # None /\ stale = None
    /\ \E c \in Configs :
         Fresh([RequestType |-> "Update", RequestId |-> nextRid,
                PhysicalResourceId |-> cfnPhys, Config |-> c, OldConfig |-> cfnConfig])

ReceiveDelete ==
    /\ fn = "cluster" /\ Idle
    /\ cfnPhys # None /\ stale = None
    /\ Fresh([RequestType |-> "Delete", RequestId |-> nextRid,
              PhysicalResourceId |-> cfnPhys, Config |-> cfnConfig,
              OldConfig |-> EmptyConfig])

\* the Delete of a replaced resource, with the properties it was created from;
\* it follows the replacing Update, whose RequestId r it turns into the fresh -r
ReceiveCleanup ==
    /\ fn = "cluster" /\ Idle
    /\ stale # None
    /\ answered' = FALSE
    /\ Invoke([RequestType |-> "Delete", RequestId |-> 0 - stale[1].by,
               PhysicalResourceId |-> stale[1].phys, Config |-> stale[1].config,
               OldConfig |-> EmptyConfig], None)
    /\ UNCHANGED <<fn, env, clusters, cfnPhys, cfnConfig, stale, nextRid>>

\* an event the orchestrator would not send: an unknown RequestType or a
\* Create with the resource's PhysicalResourceId, or an Update or Delete
\* without PhysicalResourceId; its response is not taken
ReceiveMalformed ==
    /\ fn = "cluster" /\ Idle
    /\ stale = None
    /\ nextRid <= MaxRequests
    /\ nextRid' = nextRid + 1
    /\ answered' = TRUE
    /\ \E t \in {"Create", "Update", "Delete", "Other"}, n \in GivenNames \cup {None} :
         Invoke([RequestType |-> t, RequestId |-> nextRid,
                 PhysicalResourceId |-> IF t \in {"Create", "Other"} THEN cfnPhys ELSE None,
                 Config |-> [cfnConfig EXCEPT !.name = n], OldConfig |-> cfnConfig],
                None)
    /\ UNCHANGED <<fn, env, clusters, cfnPhys, cfnConfig, stale>>

\* the same event delivered again, when no response to it has arrived
Replay ==
    /\ fn \in {"cluster", "chart"} /\ pc \in {"done", "crashed"}
    /\ ~answered
    /\ nextRid <= MaxRequests
    /\ nextRid' = nextRid + 1
    /\ Invoke(event, <<[name |-> cluster_name, resps |-> resps]>>)
    /\ UNCHANGED <<fn, env, clusters, cfnPhys, cfnConfig, stale, answered>>

----------------------------------------------------------------------------
(* cluster-resource/index.py: handler *)

Locals == <<cluster_name, current_state, replace, attrs>>

HelmLocals == <<env, physical_id, retry>>

\* the cluster_active waiter (botocore), configured at lines 143-146
WaiterLocals == <<num_attempts>>

Orch == <<cfnPhys, cfnConfig, stale, answered, nextRid>>

Raise(msg) == pc' = "except" /\ exc' = Str(msg)

\* lines 30-64 and the dispatch on request_type (87, 96, 100, 137)
Start ==
    /\ fn = "cluster" /\ pc = "start"
    /\ LET r == ResolveName(event) IN
       IF r.raised
       THEN /\ Raise("unexpected error. cannot determine cluster name")
            /\ UNCHANGED cluster_name
       ELSE /\ cluster_name' = r.name
            /\ IF Dispatch(event.RequestType) = "raise"
               THEN Raise("Invalid request type")
               ELSE pc' = Dispatch(event.RequestType) /\ UNCHANGED exc
    /\ UNCHANGED <<fn, event, current_state, replace, attrs, calls, resps, prev,
                   clusters>>
    /\ UNCHANGED Orch
    /\ UNCHANGED HelmLocals
    /\ UNCHANGED WaiterLocals

\* line 89
DeleteCluster ==
    /\ fn = "cluster" /\ pc = "delete"
    /\ calls' = Append(calls, Call("delete_cluster", cluster_name, None))
    /\ \E ok \in BOOLEAN :
         IF ok /\ Exists(cluster_name)
         THEN /\ clusters' = {c \in clusters : c.name # cluster_name}
              /\ pc' = "wait_deleted" /\ UNCHANGED exc
         ELSE /\ Raise(IF Exists(cluster_name) THEN "ClientError"
                       ELSE "ResourceNotFoundException")
              /\ UNCHANGED clusters
    /\ UNCHANGED <<fn, event, resps, prev>>
    /\ UNCHANGED Locals
    /\ UNCHANGED Orch
    /\ UNCHANGED HelmLocals
    /\ UNCHANGED WaiterLocals

\* lines 91-92
WaitDeleted ==
    /\ fn = "cluster" /\ pc = "wait_deleted"
    /\ calls' = Append(calls, Call("wait_cluster_deleted", cluster_name, None))
    /\ \E ok \in BOOLEAN :
         IF ok THEN pc' = "send_deleted" /\ UNCHANGED exc
         ELSE Raise("WaiterError")
    /\ UNCHANGED <<fn, event, resps, prev, clusters>>
    /\ UNCHANGED Locals
    /\ UNCHANGED Orch
    /\ UNCHANGED HelmLocals
    /\ UNCHANGED WaiterLocals

\* eks.create_cluster(**config), config['name'] being name
CreateCluster(name) ==
    /\ calls' = Append(calls, Call("create_cluster", name, event.Config.version))
    /\ \E ok \in BOOLEAN :
         IF ok /\ ~Exists(name)
         THEN /\ clusters' = clusters \cup
                    {[name |-> name,
                      version |-> IF event.Config.version = None THEN DefaultVersion
                                  ELSE event.Config.version]}
              /\ pc' = "wait_active" /\ UNCHANGED exc
         ELSE /\ Raise(IF Exists(name) THEN "ResourceInUseException" ELSE "ClientError")
              /\ UNCHANGED clusters

\* line 98
Create ==
    /\ fn = "cluster" /\ pc = "create"
    /\ CreateCluster(cluster_name)
    /\ UNCHANGED <<fn, event, resps, prev>>
    /\ UNCHANGED Locals
    /\ UNCHANGED Orch
    /\ UNCHANGED HelmLocals
    /\ UNCHANGED WaiterLocals

\* line 103
DescribeCurrent ==
    /\ fn = "cluster" /\ pc = "describe_current"
    /\ calls' = Append(calls, Call("describe_cluster", event.PhysicalResourceId, None))
    /\ \E ok \in BOOLEAN :
         IF ok /\ Exists(event.PhysicalResourceId)
         THEN /\ current_state' = <<ClusterOf(event.PhysicalResourceId)>>
              /\ pc' = "update" /\ UNCHANGED exc
         ELSE /\ Raise(IF event.PhysicalResourceId = None THEN "ParamValidationError"
                       ELSE IF Exists(event.PhysicalResourceId) THEN "ClientError"
                       ELSE "ResourceNotFoundException")
              /\ UNCHANGED current_state
    /\ UNCHANGED <<fn, event, cluster_name, replace, attrs, resps, prev, clusters>>
    /\ UNCHANGED Orch
    /\ UNCHANGED HelmLocals
    /\ UNCHANGED WaiterLocals

\* lines 109-136
Update ==
    /\ fn = "cluster" /\ pc = "update"
    /\ LET r == should_replace_cluster(event.PhysicalResourceId, cluster_name,
                     event.OldConfig, event.Config.resourcesVpcConfig,
                     event.Config.roleArn)
           act == VersionAction(event.OldConfig.version, event.Config.version,
                                current_state[1].version)
       IN
       /\ replace' = <<r>>
       /\ IF r
          THEN LET name == ReplacementName(cluster_name, event.PhysicalResourceId,
                                           event.RequestId)
               IN  cluster_name' = name /\ CreateCluster(name)
          ELSE /\ UNCHANGED cluster_name
               /\ IF act = "noop"
                  THEN pc' = "wait_active" /\ UNCHANGED <<exc, calls, clusters>>
                  ELSE IF act = "raise"
                  THEN /\ Raise("Version cannot be changed from a specific value to undefined")
                       /\ UNCHANGED <<calls, clusters>>
                  ELSE /\ calls' = Append(calls, Call("update_cluster_version",
                                                      cluster_name, event.Config.version))
                       /\ \E ok \in BOOLEAN :
                            IF ok /\ Exists(cluster_name)
                            THEN /\ clusters' =
                                      {c \in clusters : c.name # cluster_name} \cup
                                      {[name |-> cluster_name,
                                        version |-> event.Config.version]}
                                 /\ pc' = "wait_active" /\ UNCHANGED exc
                            ELSE /\ Raise("ClientError")
                                 /\ UNCHANGED clusters
    /\ UNCHANGED <<fn, event, current_state, attrs, resps, prev>>
    /\ UNCHANGED Orch
    /\ UNCHANGED HelmLocals
    /\ UNCHANGED WaiterLocals

\* variant of MaxAttempts: one poll more
MaxAttempts_plus_one == 26 + 1

\* line 145
MaxAttempts == 26

\* what one poll of the waiter (a describe_cluster) can show of an existing
\* cluster: active, still being created or updated, or failed
PollResults == {"ACTIVE", "CREATING", "FAILED"}

\* lines 142-146: one poll of waiter.wait.  The waiter returns on ACTIVE,
\* raises on a failed or missing cluster, and raises when MaxAttempts polls
\* were made without either.
WaitActive ==
    /\ fn = "cluster" /\ pc = "wait_active"
    /\ calls' = IF num_attempts = 0
                THEN Append(calls, Call("wait_cluster_active", cluster_name, None))
                ELSE calls
    /\ \E status \in PollResults :
         IF ~Exists(cluster_name) \/ status = "FAILED"
         THEN Raise("WaiterError") /\ num_attempts' = 0
         ELSE IF status = "ACTIVE"
         THEN pc' = "describe_final" /\ num_attempts' = 0 /\ UNCHANGED exc
         ELSE IF num_attempts + 1 >= MaxAttempts
         THEN Raise("WaiterError: Max attempts exceeded") /\ num_attempts' = 0
         ELSE num_attempts' = num_attempts + 1 /\ UNCHANGED <<pc, exc>>
    /\ UNCHANGED <<fn, event, resps, prev, clusters>>
    /\ UNCHANGED Locals
    /\ UNCHANGED Orch
    /\ UNCHANGED HelmLocals

\* lines 148-155
DescribeFinal ==
    /\ fn = "cluster" /\ pc = "describe_final"
    /\ calls' = Append(calls, Call("describe_cluster", cluster_name, None))
    /\ \E ok \in BOOLEAN :
         IF ok /\ Exists(cluster_name)
         THEN /\ attrs' = DescribeAttrs(ClusterOf(cluster_name))
              /\ pc' = "send_success" /\ UNCHANGED exc
         ELSE /\ Raise(IF Exists(cluster_name) THEN "ClientError"
                       ELSE "ResourceNotFoundException")
              /\ UNCHANGED attrs
    /\ UNCHANGED <<fn, event, cluster_name, current_state, replace, resps, prev, clusters>>
    /\ UNCHANGED Orch
    /\ UNCHANGED HelmLocals
    /\ UNCHANGED WaiterLocals

\* cfn_send (lines 170-204) called from inside the try block
SendInTry(body) ==
    \E putOk \in BOOLEAN :
        /\ resps' = Append(resps, [body |-> body, delivered |-> putOk])
        /\ OnResponse(body, putOk)
        /\ IF PutFailureRaises(putOk)
           THEN Raise("ConnectionError")
           ELSE pc' = "done" /\ UNCHANGED exc

\* line 93
SendDeleted ==
    /\ fn = "cluster" /\ pc = "send_deleted"
    /\ SendInTry(ResponseBody(event, CFN_SUCCESS, NoAttrs, cluster_name, None))
    /\ UNCHANGED <<fn, event, calls, prev, clusters, nextRid>>
    /\ UNCHANGED Locals
    /\ UNCHANGED HelmLocals
    /\ UNCHANGED WaiterLocals

\* line 157
SendSuccess ==
    /\ fn = "cluster" /\ pc = "send_success"
    /\ SendInTry(ResponseBody(event, CFN_SUCCESS, attrs, cluster_name, None))
    /\ UNCHANGED <<fn, event, calls, prev, clusters, nextRid>>
    /\ UNCHANGED Locals
    /\ UNCHANGED HelmLocals
    /\ UNCHANGED WaiterLocals

\* lines 159-162 with cfn_error (25-27): the catch-all
Except ==
    /\ fn = "cluster" /\ pc = "except"
    /\ LET body == ResponseBody(event, CFN_FAILED, NoAttrs, None, exc) IN
       \E putOk \in BOOLEAN :
           /\ resps' = Append(resps, [body |-> body, delivered |-> putOk])
           /\ OnResponse(body, putOk)
           /\ pc' = IF PutFailureRaises(putOk) THEN "crashed" ELSE "done"
    /\ UNCHANGED <<fn, event, exc, calls, prev, clusters, nextRid>>
    /\ UNCHANGED Locals
    /\ UNCHANGED HelmLocals
    /\ UNCHANGED WaiterLocals

----------------------------------------------------------------------------
(* The helm command and the helm handlers' events *)

\* what one run of the helm command can give: exit status and captured output
HelmResults ==
    {[rc |-> 0, output |-> <<"Release deployed">>],
     [rc |-> 1, output |-> <<"Error:", "write tcp", "Broken pipe">>],
     [rc |-> 1, output |-> <<"Error:", "release: not found">>]}

HelmRuns == SelectSeq(calls, LAMBDA c : c.op = "helm")

JsonTexts == {None, Str("{\"a\": 1}"), Str("{not json")}

IsJson(text) == text = Str("{\"a\": 1}")

RequestTypes == {"Create", "Update", "Delete", "Other"}

\* the first key of `keys` (in the order the code reads them) that props lacks
FirstMissing(keys, props) ==
    LET miss == {i \in 1..Len(keys) : keys[i] \notin props} IN
    IF miss = {} THEN None
    ELSE Str(keys[CHOOSE i \in miss : \A j \in miss : i <= j])

RaiseKind(kind, detail) == pc' = "except" /\ exc' = <<kind>> \o detail

----------------------------------------------------------------------------
(* helm-chart/index.py (legacy) *)

ChartEnvs == {None, Str("my-cluster")}

ChartPhysIds == {None, <<"my-cluster", "/", 0>>}

ChartReceive ==
    /\ fn = "chart" /\ Idle
    /\ nextRid <= MaxRequests
    /\ nextRid' = nextRid + 1
    /\ answered' = FALSE
    /\ \E t \in RequestTypes, p \in ChartPhysIds, ks \in SUBSET {"Release", "Chart"},
          v \in JsonTexts, e \in ChartEnvs :
         /\ Invoke([RequestType |-> t, RequestId |-> nextRid, PhysicalResourceId |-> p,
                    Props |-> ks, Values |-> v], None)
         /\ env' = e
    /\ UNCHANGED <<fn, clusters, cfnPhys, cfnConfig, stale>>

\* lines 108-123: the response body
ChartResponseBody(ev, responseStatus, physicalResourceId, reason) ==
    [Status |-> responseStatus,
     Reason |-> IF reason # None THEN reason ELSE Str("See the details in CloudWatch"),
     PhysicalResourceId |->
        IF physicalResourceId # None THEN physicalResourceId ELSE LogStream,
     RequestId |-> ev.RequestId,
     Data |-> NoAttrs]

\* lines 133-138: does a failed PUT leave cfn_send as an exception?
ChartPutFailureRaises(putOk) == FALSE

\* cfn_send called from inside the try block
ChartSendInTry(body) ==
    \E putOk \in BOOLEAN :
        /\ resps' = Append(resps, [body |-> body, delivered |-> putOk])
        /\ answered' = (answered \/ putOk)
        /\ IF ChartPutFailureRaises(putOk)
           THEN RaiseKind("ConnectionError", <<>>)
           ELSE pc' = "done" /\ UNCHANGED exc

ChartFrame == <<fn, event, env, retry, current_state, replace, attrs, num_attempts, prev,
                clusters, cfnPhys, cfnConfig, stale, nextRid>>

\* lines 30-43
ChartStart ==
    /\ fn = "chart" /\ pc = "start"
    /\ LET missing == FirstMissing(<<"Release", "Chart">>, event.Props) IN
       IF missing # None
       THEN /\ RaiseKind("KeyError", missing)
            /\ UNCHANGED <<physical_id, cluster_name>>
       ELSE /\ physical_id' = event.PhysicalResourceId
            /\ cluster_name' = env
            /\ IF env = None
               THEN /\ pc' = "cfn_error_return"
                    /\ exc' = <<"", "CLUSTER_NAME is missing in environment">>
               ELSE pc' = "kubeconfig" /\ UNCHANGED exc
    /\ UNCHANGED <<calls, resps, answered>>
    /\ UNCHANGED ChartFrame

\* lines 45-48
ChartKubeconfig ==
    /\ fn = "chart" /\ pc = "kubeconfig"
    /\ calls' = Append(calls, Call("update-kubeconfig", cluster_name, None))
    /\ \E ok \in BOOLEAN :
         IF ok THEN pc' = "values" /\ UNCHANGED exc
         ELSE RaiseKind("CalledProcessError", <<>>)
    /\ UNCHANGED <<physical_id, cluster_name, resps, answered>>
    /\ UNCHANGED ChartFrame

\* lines 51-56
ChartValues ==
    /\ fn = "chart" /\ pc = "values"
    /\ IF event.RequestType # "Delete" /\ event.Values # None /\ ~IsJson(event.Values)
       THEN RaiseKind("JSONDecodeError", <<>>)
       ELSE pc' = "helm" /\ UNCHANGED exc
    /\ UNCHANGED <<physical_id, cluster_name, calls, resps, answered>>
    /\ UNCHANGED ChartFrame

\* lines 58-64, with helm (84-104)
ChartHelm ==
    /\ fn = "chart" /\ pc = "helm"
    /\ IF event.RequestType \in {"Create", "Update"}
       THEN \E r \in HelmResults :
              /\ calls' = Append(calls, Call("helm", "upgrade", r))
              /\ IF r.rc = 0 THEN pc' = "physid" /\ UNCHANGED exc
                 ELSE RaiseKind("Exception", r.output)
       ELSE IF event.RequestType = "Delete"
       THEN \E r \in HelmResults :
              /\ calls' = Append(calls, Call("helm", "uninstall", r))
              /\ pc' = "physid" /\ UNCHANGED exc
       ELSE pc' = "physid" /\ UNCHANGED <<exc, calls>>
    /\ UNCHANGED <<physical_id, cluster_name, resps, answered>>
    /\ UNCHANGED ChartFrame

\* lines 68-73
ChartPhysId ==
    /\ fn = "chart" /\ pc = "physid"
    /\ IF event.RequestType = "Create"
       THEN /\ \E uuid4 \in 1..NumUuids : physical_id' = cluster_name \o <<"/", uuid4>>
            /\ pc' = "send" /\ UNCHANGED exc
       ELSE /\ UNCHANGED physical_id
            /\ IF physical_id = None
               THEN /\ pc' = "cfn_error_return"
                    /\ exc' = <<"", "invalid request: 'PhysicalResourceId' is not defined">>
               ELSE pc' = "send" /\ UNCHANGED exc
    /\ UNCHANGED <<cluster_name, calls, resps, answered>>
    /\ UNCHANGED ChartFrame

\* line 75
ChartSend ==
    /\ fn = "chart" /\ pc = "send"
    /\ ChartSendInTry(ChartResponseBody(event, CFN_SUCCESS, physical_id, None))
    /\ UNCHANGED <<physical_id, cluster_name, calls>>
    /\ UNCHANGED ChartFrame

\* lines 42-43 and 72-73: cfn_error inside the try block, then return
ChartErrorReturn ==
    /\ fn = "chart" /\ pc = "cfn_error_return"
    /\ \E putOk \in BOOLEAN :
        /\ resps' = Append(resps, [body |-> ChartResponseBody(event, CFN_FAILED, None,
                                                              Tail(exc)),
                                   delivered |-> putOk])
        /\ answered' = (answered \/ putOk)
        /\ IF ChartPutFailureRaises(putOk)
           THEN RaiseKind("ConnectionError", <<>>)
           ELSE pc' = "done" /\ UNCHANGED exc
    /\ UNCHANGED <<physical_id, cluster_name, calls>>
    /\ UNCHANGED ChartFrame

\* lines 78-82: the two except clauses
ChartExcept ==
    /\ fn = "chart" /\ pc = "except"
    /\ LET reason == IF Head(exc) = "KeyError"
                     THEN <<"invalid request. Missing">> \o Tail(exc)
                     ELSE Tail(exc)
           body == ChartResponseBody(event, CFN_FAILED, None, reason)
       IN \E putOk \in BOOLEAN :
           /\ resps' = Append(resps, [body |-> body, delivered |-> putOk])
           /\ answered' = (answered \/ putOk)
           /\ pc' = IF ChartPutFailureRaises(putOk) THEN "crashed" ELSE "done"
    /\ UNCHANGED <<physical_id, cluster_name, exc, calls>>
    /\ UNCHANGED ChartFrame

NextChart ==
    \/ ChartReceive \/ ChartStart \/ ChartKubeconfig \/ ChartValues \/ ChartHelm
    \/ ChartPhysId \/ ChartSend \/ ChartErrorReturn \/ ChartExcept

----------------------------------------------------------------------------
(* kubectl-handler/helm/__init__.py *)

\* variant of maxAttempts: one attempt more
maxAttempts_plus_one == 3 + 1

\* line 85
maxAttempts == 3

KubectlKeys == <<"ClusterName", "RoleArn", "Release", "Chart">>

KubectlFrame == <<fn, env, physical_id, cluster_name, current_state, replace, attrs,
                  num_attempts, resps, prev, clusters, cfnPhys, cfnConfig, stale, answered>>

KubectlReceive ==
    /\ fn = "kubectl" /\ pc \in {"idle", "done", "raised"}
    /\ nextRid <= MaxRequests
    /\ nextRid' = nextRid + 1
    /\ \E t \in RequestTypes, v \in JsonTexts,
          ks \in SUBSET {"ClusterName", "RoleArn", "Release", "Chart"} :
         Invoke([RequestType |-> t, RequestId |-> nextRid, PhysicalResourceId |-> None,
                 Props |-> ks, Values |-> v], None)
    /\ UNCHANGED <<fn, env, clusters, cfnPhys, cfnConfig, stale, answered>>

\* an exception that leaves helm_handler: nothing catches it
Propagate(kind, detail) == pc' = "raised" /\ exc' = <<kind>> \o detail

\* lines 19-33
KubectlStart ==
    /\ fn = "kubectl" /\ pc = "start"
    /\ LET missing == FirstMissing(KubectlKeys, event.Props) IN
       IF missing # None THEN Propagate("KeyError", missing)
       ELSE pc' = "kubeconfig" /\ UNCHANGED exc
    /\ UNCHANGED <<event, retry, calls, nextRid>>
    /\ UNCHANGED KubectlFrame

\* lines 36-43
KubectlKubeconfig ==
    /\ fn = "kubectl" /\ pc = "kubeconfig"
    /\ calls' = Append(calls, Call("update-kubeconfig", Str("ClusterName"), None))
    /\ \E ok \in BOOLEAN :
         IF ok THEN pc' = "values" /\ UNCHANGED exc
         ELSE Propagate("CalledProcessError", <<>>)
    /\ UNCHANGED <<event, retry, nextRid>>
    /\ UNCHANGED KubectlFrame

\* lines 46-51
KubectlValues ==
    /\ fn = "kubectl" /\ pc = "values"
    /\ IF event.RequestType # "Delete" /\ event.Values # None /\ ~IsJson(event.Values)
       THEN Propagate("JSONDecodeError", <<>>)
       ELSE pc' = "dispatch" /\ UNCHANGED exc
    /\ UNCHANGED <<event, retry, calls, nextRid>>
    /\ UNCHANGED KubectlFrame

\* lines 53-57 entering helm (61-86)
KubectlDispatch ==
    /\ fn = "kubectl" /\ pc = "dispatch"
    /\ IF event.RequestType \in {"Create", "Update", "Delete"}
       THEN pc' = "helm_while" /\ retry' = maxAttempts
       ELSE pc' = "done" /\ UNCHANGED retry
    /\ UNCHANGED <<event, exc, calls, nextRid>>
    /\ UNCHANGED KubectlFrame

Verb == IF event.RequestType = "Delete" THEN "uninstall" ELSE "upgrade"

\* variant of IsTransient that takes every failure for a broken pipe
IsTransient_always(output) == TRUE

\* line 94
IsTransient(output) == \E i \in 1..Len(output) : output[i] = "Broken pipe"

\* variant of HelmRaise in which helm_handler catches every error of helm()
HelmRaise_swallowing_all(e) ==
    /\ exc' = <<"Exception">> \o e
    /\ pc' = "done"

\* helm() raises e: helm_handler catches it for uninstall only (lines 56-59)
HelmRaise(e) ==
    /\ exc' = <<"Exception">> \o e
    /\ pc' = IF Verb = "uninstall" THEN "done" ELSE "raised"

\* lines 87-97: one pass of the while loop
HelmRun ==
    /\ fn = "kubectl" /\ pc = "helm_while" /\ retry > 0
    /\ \E r \in HelmResults :
         /\ calls' = Append(calls, Call("helm", Verb, r))
         /\ IF r.rc = 0 THEN pc' = "done" /\ UNCHANGED <<exc, retry>>
            ELSE IF ~IsTransient(r.output) THEN HelmRaise(r.output) /\ UNCHANGED retry
            ELSE retry' = retry - 1 /\ UNCHANGED <<pc, exc>>
    /\ UNCHANGED <<event, nextRid>>
    /\ UNCHANGED KubectlFrame

\* line 98: the loop condition failed
HelmExhausted ==
    /\ fn = "kubectl" /\ pc = "helm_while" /\ ~(retry > 0)
    /\ HelmRaise(<<"Operation failed after attempts:">> \o calls[Len(calls)].arg.output)
    /\ UNCHANGED <<event, retry, calls, nextRid>>
    /\ UNCHANGED KubectlFrame

KubectlStep ==
    \/ KubectlStart \/ KubectlKubeconfig \/ KubectlValues \/ KubectlDispatch
    \/ HelmRun \/ HelmExhausted

NextKubectl == KubectlReceive \/ KubectlStep

----------------------------------------------------------------------------

Init ==
    /\ fn \in {"cluster", "chart", "kubectl"}
    /\ pc = "idle"
    /\ event = NoEvent
    /\ env = None
    /\ physical_id = None
    /\ retry = 0
    /\ cluster_name = None
    /\ current_state = None
    /\ replace = None
    /\ attrs = NoAttrs
    /\ num_attempts = 0
    /\ exc = None
    /\ calls = <<>>
    /\ resps = <<>>
    /\ prev = None
    /\ clusters = {}
    /\ cfnPhys = None
    /\ cfnConfig = EmptyConfig
    /\ stale = None
    /\ answered = FALSE
    /\ nextRid = 1

\* the steps of a running invocation of the cluster handler
ClusterStep ==
    \/ Start \/ DeleteCluster \/ WaitDeleted \/ Create \/ DescribeCurrent \/ Update
    \/ WaitActive \/ DescribeFinal \/ SendDeleted \/ SendSuccess \/ Except

NextCluster ==
    \/ ReceiveCreate \/ ReceiveUpdate \/ ReceiveDelete \/ ReceiveCleanup
    \/ ReceiveMalformed
    \/ ClusterStep

Next == NextCluster \/ NextChart \/ NextKubectl \/ Replay

Spec == Init /\ [][Next]_vars

\* the kubectl handler alone; the interpreter keeps running a started invocation
InitKubectl == Init /\ fn = "kubectl"

FairKubectl == InitKubectl /\ [][NextKubectl]_vars /\ WF_vars(KubectlStep)

\* the cluster handler alone; the interpreter keeps running a started invocation
InitCluster == Init /\ fn = "cluster"

\* the orchestrator delivers up to WaitRequests requests
NextClusterWait ==
    \/ nextRid <= WaitRequests /\ ReceiveCreate
    \/ nextRid <= WaitRequests /\ ReceiveUpdate
    \/ nextRid <= WaitRequests /\ ReceiveDelete
    \/ nextRid <= WaitRequests /\ ReceiveMalformed
    \/ nextRid <= WaitRequests /\ Replay
    \/ ReceiveCleanup
    \/ ClusterStep

FairCluster == InitCluster /\ [][NextClusterWait]_vars /\ WF_vars(ClusterStep)

----------------------------------------------------------------------------
(* Properties *)

Terminal == pc \in {"done", "crashed", "raised"}

Called(op) == \E i \in 1..Len(calls) : calls[i].op = op

CountCalls(op) == Cardinality({i \in 1..Len(calls) : calls[i].op = op})

Succeeded(rs) == \E i \in 1..Len(rs) : rs[i].body.Status = CFN_SUCCESS

\* C1: in the cluster handler and in the legacy helm-chart handler an
\* invocation makes no response PUT attempt until it answers, never more than
\* one, and has made exactly one when it returns, whichever external call
\* failed and whether or not the PUT itself failed; it returns, it does not
\* leave by an exception.
C1_ExactlyOneResponse ==
    fn \in {"cluster", "chart"} =>
        /\ Len(resps) <= 1
        /\ pc # "crashed"
        /\ (pc = "done" => Len(resps) = 1)
        /\ (pc \notin {"idle", "done"} => resps = <<>>)

C1_Witness ==
    /\ fn = "cluster" /\ pc = "done"
    /\ exc = Str("WaiterError")
    /\ Len(resps) = 1 /\ ~resps[1].delivered

\* C2: should_replace_cluster() is true exactly when the resolved name
\* differs from the PhysicalResourceId, or resourcesVpcConfig differs between
\* old and new Config, or roleArn differs.
C2_ReplaceIff ==
    (fn = "cluster" /\ replace # None) =>
        (replace[1] <=>
            \/ ResolveName(event).name # event.PhysicalResourceId
            \/ event.OldConfig.resourcesVpcConfig # event.Config.resourcesVpcConfig
            \/ event.OldConfig.roleArn # event.Config.roleArn)

C2_Witness ==
    /\ fn = "cluster" /\ replace = <<TRUE>>
    /\ ResolveName(event).name = event.PhysicalResourceId
    /\ event.OldConfig.resourcesVpcConfig = event.Config.resourcesVpcConfig
    /\ event.OldConfig.roleArn # event.Config.roleArn
    /\ event.OldConfig.version = event.Config.version

SameExceptVersion(old, new) ==
    /\ old.name = new.name
    /\ old.resourcesVpcConfig = new.resourcesVpcConfig
    /\ old.roleArn = new.roleArn

\* C3: an Update whose old and new Config differ at most in 'version', sent
\* with the PhysicalResourceId the handler last reported, decides no
\* replacement: create_cluster is not called and every response carries the
\* request's PhysicalResourceId.
C3_VersionOnlyUpdateKeepsCluster ==
    (/\ fn = "cluster" /\ event.RequestType = "Update"
     /\ event.PhysicalResourceId # None
     /\ SameExceptVersion(event.OldConfig, event.Config)) =>
        /\ replace # <<TRUE>>
        /\ ~Called("create_cluster")
        /\ \A i \in 1..Len(resps) :
             resps[i].body.PhysicalResourceId = event.PhysicalResourceId

\* C4: a Delete whose delete_cluster reports that the cluster does not exist
\* is answered SUCCESS.
C4_DeleteOfAbsentClusterSucceeds ==
    (/\ fn = "cluster" /\ event.RequestType = "Delete" /\ pc = "done"
     /\ event.PhysicalResourceId # None
     /\ calls # <<>> /\ calls[Len(calls)].op = "delete_cluster"
     /\ ~Exists(calls[Len(calls)].name)) =>
        Succeeded(resps)

\* the outputs of the helm runs of the current invocation, in order
RunOutputs == [i \in 1..Len(HelmRuns) |-> HelmRuns[i].arg]

BrokenPipe == [rc |-> 1, output |-> <<"Error:", "write tcp", "Broken pipe">>]

Deployed == [rc |-> 0, output |-> <<"Release deployed">>]

NotFound == [rc |-> 1, output |-> <<"Error:", "release: not found">>]

HelmRaised == exc # None /\ Head(exc) = "Exception"

C5_Bounded ==
    fn = "kubectl" =>
        /\ Len(HelmRuns) <= 3
        /\ (pc = "helm_while" =>
              /\ \A i \in 1..Len(HelmRuns) : RunOutputs[i] = BrokenPipe
              /\ (Len(HelmRuns) < 3 => ENABLED HelmRun))
        /\ (Terminal /\ RunOutputs = <<BrokenPipe, BrokenPipe, Deployed>> =>
              pc = "done" /\ ~HelmRaised)
        /\ (Terminal /\ RunOutputs = <<BrokenPipe, BrokenPipe, BrokenPipe>> =>
              HelmRaised)

\* C5: helm() runs the command at most 3 times; after a run that failed with
\* 'Broken pipe' another run follows while fewer than 3 were made; two broken
\* pipes and a success return normally after 3 runs; three broken pipes raise
\* after 3 runs; and the loop always ends.
C5_RetryLoop ==
    /\ []C5_Bounded
    /\ ((fn = "kubectl" /\ pc = "helm_while") ~> Terminal)

C5_Witness ==
    /\ fn = "kubectl" /\ pc = "done"
    /\ RunOutputs = <<BrokenPipe, BrokenPipe, Deployed>>

\* C6: a run that fails without 'Broken pipe' in its output is the last run
\* of the call, and helm() raises an error made of that output.
C6_NonTransientFailureEndsCall ==
    fn = "kubectl" =>
        \A i \in 1..Len(HelmRuns) :
            (RunOutputs[i].rc # 0 /\ RunOutputs[i] # BrokenPipe) =>
                /\ i = Len(HelmRuns)
                /\ pc # "helm_while"
                /\ exc = <<"Exception">> \o RunOutputs[i].output

C6_Witness ==
    /\ fn = "kubectl" /\ pc = "raised"
    /\ RunOutputs = <<BrokenPipe, NotFound>>

IsReplayedCreate ==
    /\ prev # None /\ event.RequestType = "Create"
    /\ event.PhysicalResourceId = None
    /\ Terminal

\* C7 as claimed: when the same Create (no name, no PhysicalResourceId) is
\* handled twice and answered SUCCESS both times, both responses carry the
\* same PhysicalResourceId, in the cluster handler and in the helm-chart
\* handler.
C7_ReplayedCreateSamePhysicalId ==
    (/\ fn \in {"cluster", "chart"} /\ IsReplayedCreate
     /\ (fn = "cluster" => event.Config.name = None)
     /\ Succeeded(prev[1].resps) /\ Succeeded(resps)) =>
        resps[1].body.PhysicalResourceId = prev[1].resps[1].body.PhysicalResourceId

\* C7 amended: in the cluster handler both handlings derive the name
\* cluster-<RequestId> and a SUCCESS response of either carries it; in the
\* helm-chart handler each SUCCESS response to a Create carries an id
\* <CLUSTER_NAME>/<uuid4> allocated by that handling.
C7_ReplayedCreate ==
    /\ (fn = "cluster" /\ IsReplayedCreate /\ event.Config.name = None) =>
          /\ cluster_name = <<"cluster-", event.RequestId>>
          /\ prev[1].name = cluster_name
          /\ \A r \in {resps[i] : i \in 1..Len(resps)}
                   \cup {prev[1].resps[i] : i \in 1..Len(prev[1].resps)} :
                r.body.Status = CFN_SUCCESS => r.body.PhysicalResourceId = cluster_name
    /\ (fn = "chart" /\ event.RequestType = "Create" /\ Succeeded(resps)) =>
          \E u \in 1..NumUuids : resps[1].body.PhysicalResourceId = env \o <<"/", u>>

C7_Witness ==
    /\ fn = "cluster" /\ IsReplayedCreate /\ event.Config.name = None
    /\ pc = "done"
    /\ Succeeded(resps) /\ ~Succeeded(prev[1].resps)

UnsetsVersion ==
    /\ fn = "cluster" /\ event.RequestType = "Update"
    /\ event.PhysicalResourceId # None
    /\ event.OldConfig.version # None /\ event.Config.version = None

Rejected ==
    /\ ~Called("create_cluster") /\ ~Called("update_cluster_version")
    /\ (pc = "done" =>
          /\ resps[1].body.Status = CFN_FAILED
          /\ resps[1].body.PhysicalResourceId = event.PhysicalResourceId)

\* C8 as claimed: every Update whose old Config pins a version and whose new
\* Config has none is answered FAILED with the request's PhysicalResourceId,
\* without create_cluster or update_cluster_version, whatever the other fields.
C8_UnsetVersionAlwaysRejected == UnsetsVersion => Rejected

\* C8 amended: the same, for the Updates for which should_replace_cluster()
\* does not require a replacement.
C8_UnsetVersionRejectedWithoutReplacement ==
    (UnsetsVersion /\ replace # <<TRUE>>) => Rejected

C8_Witness ==
    /\ UnsetsVersion /\ replace = <<FALSE>> /\ pc = "done"
    /\ exc = Str("Version cannot be changed from a specific value to undefined")

InPlaceUpdate ==
    /\ fn = "cluster" /\ event.RequestType = "Update" /\ replace = <<FALSE>>

\* C9: an Update without replacement whose new version is concrete and
\* differs from the cluster's version calls update_cluster_version once, with
\* the new version, right after the describe and never create_cluster; its
\* SUCCESS comes after the wait and the final describe and carries the
\* request's PhysicalResourceId.  When the new version is the cluster's, or old
\* and new are both unspecified, neither call is made.
C9_InPlaceVersionUpdate ==
    InPlaceUpdate =>
        LET new == event.Config.version
            old == event.OldConfig.version
            actual == current_state[1].version
        IN
        /\ ~Called("create_cluster")
        /\ (new # None /\ new # actual) =>
              /\ CountCalls("update_cluster_version") = 1
              /\ calls[2] = Call("update_cluster_version", event.PhysicalResourceId, new)
              /\ Succeeded(resps) =>
                    /\ resps[1].body.PhysicalResourceId = event.PhysicalResourceId
                    /\ calls = <<Call("describe_cluster", event.PhysicalResourceId, None),
                                 Call("update_cluster_version", event.PhysicalResourceId, new),
                                 Call("wait_cluster_active", event.PhysicalResourceId, None),
                                 Call("describe_cluster", event.PhysicalResourceId, None)>>
        /\ (new = actual \/ (old = None /\ new = None)) =>
              ~Called("update_cluster_version")

C9_Witness ==
    /\ InPlaceUpdate /\ pc = "done" /\ Succeeded(resps)
    /\ Called("update_cluster_version")
    /\ event.OldConfig.version # None

\* C10: an Update for which replacement is required creates the new cluster
\* under a name different from the request's PhysicalResourceId, a name made
\* of the RequestId when the resolved name is the current physical id, and a
\* SUCCESS response carries that new name.
C10_ReplacementGetsNewName ==
    (/\ fn = "cluster" /\ event.RequestType = "Update" /\ replace = <<TRUE>>) =>
        /\ cluster_name # event.PhysicalResourceId
        /\ (ResolveName(event).name = event.PhysicalResourceId =>
              cluster_name = <<"cluster-", event.RequestId>>)
        /\ CountCalls("create_cluster") = 1
        /\ calls[2] = Call("create_cluster", cluster_name, event.Config.version)
        /\ ~Called("update_cluster_version")
        /\ \A i \in 1..Len(resps) :
             resps[i].body.Status = CFN_SUCCESS =>
                /\ resps[i].body.PhysicalResourceId = cluster_name
                /\ resps[i].body.PhysicalResourceId # event.PhysicalResourceId

C10_Witness ==
    /\ fn = "cluster" /\ event.RequestType = "Update" /\ replace = <<TRUE>>
    /\ pc = "done" /\ Succeeded(resps)
    /\ ResolveName(event).name = event.PhysicalResourceId
    /\ cluster_name = <<"cluster-", event.RequestId>>

Mutating == {"create_cluster", "update_cluster_version", "delete_cluster"}

CreateOrUpdate == fn = "cluster" /\ event.RequestType \in {"Create", "Update"}

C11_NoDeleteNoCallOnOld ==
    CreateOrUpdate =>
        /\ ~Called("delete_cluster")
        /\ (replace = <<TRUE>> =>
              \A i \in 1..Len(calls) :
                  calls[i].op \in Mutating => calls[i].name # event.PhysicalResourceId)

C11_OldClusterKept ==
    (CreateOrUpdate /\ event' = event /\ replace' # <<FALSE>>) =>
        \A c \in clusters : c \in clusters'

\* C11: handling a Create or an Update never calls delete_cluster; when a
\* replacement is decided no create, update or delete call names the request's
\* PhysicalResourceId; and no step of a Create or of a replacing Update
\* removes or changes a cluster that exists.
C11_ReplacementLeavesOldCluster ==
    /\ []C11_NoDeleteNoCallOnOld
    /\ [][C11_OldClusterKept]_vars

C11_Witness ==
    /\ CreateOrUpdate /\ replace = <<TRUE>> /\ pc = "done"
    /\ Called("create_cluster") /\ exc = Str("WaiterError")
    /\ Exists(event.PhysicalResourceId)
    /\ Exists(cluster_name)

\* C12: every FAILED response to a request that carries a PhysicalResourceId
\* reports that PhysicalResourceId, wherever the failure happened.
C12_FailedKeepsPhysicalId ==
    (fn = "cluster" /\ event.PhysicalResourceId # None) =>
        \A i \in 1..Len(resps) :
            resps[i].body.Status = CFN_FAILED =>
                resps[i].body.PhysicalResourceId = event.PhysicalResourceId

C12_Witness ==
    /\ fn = "cluster" /\ event.RequestType = "Update" /\ pc = "done"
    /\ replace = <<TRUE>> /\ cluster_name = <<"cluster-", event.RequestId>>
    /\ Exists(cluster_name)
    /\ resps[1].body.Status = CFN_FAILED
    /\ resps[1].body.PhysicalResourceId = event.PhysicalResourceId

\* C13: in the legacy helm-chart handler every FAILED response to an Update or
\* Delete that carries a PhysicalResourceId reports that PhysicalResourceId.
C13_ChartFailedKeepsPhysicalId ==
    (/\ fn = "chart" /\ event.RequestType \in {"Update", "Delete"}
     /\ event.PhysicalResourceId # None) =>
        \A i \in 1..Len(resps) :
            resps[i].body.Status = CFN_FAILED =>
                resps[i].body.PhysicalResourceId = event.PhysicalResourceId

\* C14: a Delete that carries a PhysicalResourceId the handler reported
\* earlier calls delete_cluster on it, waits for its deletion, and a SUCCESS
\* response reports it.
C14_DeleteUsesPhysicalId ==
    (/\ fn = "cluster" /\ event.RequestType = "Delete"
     /\ event.PhysicalResourceId # None) =>
        /\ \A i \in 1..Len(calls) : calls[i].name = event.PhysicalResourceId
        /\ \A i \in 1..Len(resps) :
             resps[i].body.Status = CFN_SUCCESS =>
                /\ resps[i].body.PhysicalResourceId = event.PhysicalResourceId
                /\ calls = <<Call("delete_cluster", event.PhysicalResourceId, None),
                             Call("wait_cluster_deleted", event.PhysicalResourceId, None)>>

TimedOut == exc = Str("WaiterError: Max attempts exceeded")

C15_PollsBounded ==
    fn = "cluster" =>
        /\ num_attempts \in 0..25
        /\ (num_attempts > 0 => pc = "wait_active")
        /\ (TimedOut =>
              /\ pc \in {"except", "done"}
              /\ event.RequestType \in {"Create", "Update"}
              /\ calls[Len(calls)] = Call("wait_cluster_active", cluster_name, None)
              /\ ~Succeeded(resps)
              /\ (pc = "done" => Len(resps) = 1 /\ resps[1].body.Status = CFN_FAILED))

C15_LastPollLeaves ==
    (fn = "cluster" /\ pc = "wait_active" /\ num_attempts = 25) =>
        /\ num_attempts' = 0
        /\ \/ pc' = "describe_final"
           \/ pc' = "except" /\ exc' \in {Str("WaiterError"),
                                          Str("WaiterError: Max attempts exceeded")}

\* C15: the wait for the active state makes at most 26 polls; the 26th poll
\* ends the wait; a wait that ran out of polls is answered FAILED, with no
\* final describe_cluster and no SUCCESS; and a started wait always leads to
\* the end of the invocation.
C15_WaitBounded ==
    /\ []C15_PollsBounded
    /\ [][C15_LastPollLeaves]_vars
    /\ ((fn = "cluster" /\ pc = "wait_active") ~> (pc = "done"))

C15_Witness ==
    /\ fn = "cluster" /\ pc = "done" /\ TimedOut
    /\ event.RequestType = "Update"
    /\ resps[1].body.Status = CFN_FAILED

UnknownType ==
    /\ fn = "cluster" /\ pc # "idle"
    /\ event.RequestType \notin {"Create", "Update", "Delete"}

\* C16: a request whose RequestType is none of Create, Update, Delete makes
\* no call on EKS, no wait, and is answered FAILED.
C16_UnknownTypeFails ==
    UnknownType =>
        /\ calls = <<>>
        /\ pc \in {"start", "except", "done"}
        /\ (pc = "done" => Len(resps) = 1 /\ resps[1].body.Status = CFN_FAILED)

C16_Witness ==
    /\ UnknownType /\ pc = "done"
    /\ exc = Str("Invalid request type")
    /\ event.Config.name # None /\ event.PhysicalResourceId # None

\* C17: a SUCCESS response to a Create or Update comes after the create or
\* update call (if any), then the wait for the active state, then
\* describe_cluster, all on the name the response reports as
\* PhysicalResourceId; Data holds the four attributes of that describe and
\* Data.Name is the PhysicalResourceId.
C17_SuccessAfterWaitAndDescribe ==
    (CreateOrUpdate /\ Succeeded(resps)) =>
        LET n == Len(calls)
            body == resps[1].body
        IN
        /\ n >= 2
        /\ calls[n] = Call("describe_cluster", body.PhysicalResourceId, None)
        /\ calls[n - 1] = Call("wait_cluster_active", body.PhysicalResourceId, None)
        /\ \A i \in 1..n :
             calls[i].op \in {"create_cluster", "update_cluster_version"} =>
                i < n - 1 /\ calls[i].name = body.PhysicalResourceId
        /\ (event.RequestType = "Create" => calls[1].op = "create_cluster")
        /\ body.PhysicalResourceId = cluster_name
        /\ body.Data.Name = body.PhysicalResourceId
        /\ body.Data.Endpoint # None /\ body.Data.Arn # None
        /\ body.Data.CertificateAuthorityData # None

C17_Witness ==
    /\ CreateOrUpdate /\ Succeeded(resps) /\ event.RequestType = "Update"
    /\ replace = <<TRUE>>
    /\ resps[1].body.PhysicalResourceId # event.PhysicalResourceId

\* the name the handler has resolved, before a replacement changes it
NameResolved ==
    /\ fn = "cluster" /\ pc \notin {"idle", "start"} /\ replace # <<TRUE>>

\* C18: the resolved name is the Config name when given, else the request's
\* PhysicalResourceId when present, else cluster-<RequestId> for a Create;
\* else the request is answered FAILED without any call.
C18_NameResolution ==
    NameResolved =>
        IF event.Config.name # None THEN cluster_name = event.Config.name
        ELSE IF event.PhysicalResourceId # None
             THEN cluster_name = event.PhysicalResourceId
        ELSE IF event.RequestType = "Create"
             THEN cluster_name = <<"cluster-", event.RequestId>>
        ELSE /\ cluster_name = None
             /\ calls = <<>>
             /\ pc \in {"except", "done"}
             /\ (pc = "done" => Len(resps) = 1 /\ resps[1].body.Status = CFN_FAILED)

C18_Witness ==
    /\ NameResolved /\ event.RequestType = "Delete"
    /\ event.Config.name # None /\ event.PhysicalResourceId # None
    /\ event.Config.name # event.PhysicalResourceId
    /\ cluster_name = event.Config.name

LastRunFailed == HelmRuns # <<>> /\ HelmRuns[Len(HelmRuns)].arg.rc # 0

\* C19: in both helm handlers a failed 'helm uninstall' never fails a Delete:
\* helm_handler returns normally and the helm-chart handler answers SUCCESS
\* with the request's PhysicalResourceId; a failed 'helm upgrade' on Create or
\* Update propagates out of helm_handler and is answered FAILED by the
\* helm-chart handler.
C19_UninstallFailureSwallowed ==
    /\ (fn = "kubectl" /\ Terminal /\ LastRunFailed) =>
          IF event.RequestType = "Delete" THEN pc = "done" ELSE pc = "raised"
    /\ (fn = "chart" /\ LastRunFailed) =>
          IF event.RequestType = "Delete"
          THEN /\ pc # "except"
               /\ (pc = "done" /\ event.PhysicalResourceId # None) =>
                     /\ Len(resps) = 1
                     /\ resps[1].body.Status = CFN_SUCCESS
                     /\ resps[1].body.PhysicalResourceId = event.PhysicalResourceId
          ELSE /\ pc \in {"except", "done"}
               /\ ~Succeeded(resps)
               /\ (pc = "done" => Len(resps) = 1 /\ resps[1].body.Status = CFN_FAILED)

C19_Witness ==
    /\ fn = "kubectl" /\ pc = "done" /\ event.RequestType = "Delete"
    /\ RunOutputs = <<BrokenPipe, BrokenPipe, BrokenPipe>>

\* answered FAILED by one of the handler's two "invalid request" messages
InvalidRequest ==
    /\ fn = "chart" /\ pc = "done" /\ resps[1].body.Status = CFN_FAILED
    /\ exc # None
    /\ \/ Head(exc) = "KeyError"
       \/ exc = <<"", "invalid request: 'PhysicalResourceId' is not defined">>

\* C20: in the legacy helm-chart handler a request answered FAILED as invalid
\* (no 'Release', no 'Chart', or an Update or Delete without
\* PhysicalResourceId) has run no helm command.
C20_InvalidRequestRunsNoHelm ==
    InvalidRequest => HelmRuns = <<>>

====
